---------------------------- MODULE Spec2Model ----------------------------
(***************************************************************************)
(* Discovery engine of go-pvaccess: the beacon scheduler (Serve) and the   *)
(* search responder (searchServer.serve / handleConnection).               *)
(*                                                                         *)
(* The repository carries two versions of Serve.  impl = "listener" is     *)
(* internal/search/search.go (one broadcast connection obtained from the   *)
(* udpconn listener, plus the search responder); impl = "manual" is the    *)
(* older file (one dialled UDP socket per local address, no responder).    *)
(* The packages udpconn, connection and proto are not part of the sources  *)
(* at hand; what the model needs of them is taken from the specification   *)
(* and marked so.                                                          *)
(*                                                                         *)
(* Timing.  A timer period is long with respect to a step of the Serve     *)
(* loop: the ticker delivers its next tick only while Serve is blocked in  *)
(* its select (no tick pending, context not cancelled).                    *)
(***************************************************************************)
EXTENDS Integers, Sequences, FiniteSets, TLC

---------------------------------------------------------------------------
(* Bounds of the model *)

\* Width in bits of BeaconSequenceID as modelled (the field is declared in proto).
SeqBits == 4
\* Pseudo-connections the listener accepts in one run.
MaxConns == 2

SeqMod == 2 ^ SeqBits
\* Ticks the timers deliver in one run: past the start-up phase and past the wrap.
MaxTicks == SeqMod + 3
MixTicks == 2

---------------------------------------------------------------------------
(* Program constants *)

startupInterval == 1
startupCount == 15
beaconInterval == 5
udpPort == 5076

None == "none"

---------------------------------------------------------------------------
(* net.IP: a sequence of 0 (nil), 4 or 16 bytes *)

Zeros(n) == [k \in 1..n |-> 0]

v4InV6Prefix == <<0, 0, 0, 0, 0, 0, 0, 0, 0, 0, 255, 255>>

\* net.IPv4(a, b, c, d): the 16-byte form of an IPv4 address
IPv4(a, b, c, d) == v4InV6Prefix \o <<a, b, c, d>>

IPv4zero == IPv4(0, 0, 0, 0)
IPv4bcast == IPv4(255, 255, 255, 255)
IPv6unspecified == Zeros(16)
IPv6linklocalallnodes == <<255, 2>> \o Zeros(13) \o <<1>>

\* ip.To4(): the 4-byte form, or nil when ip is not an IPv4 address
To4(ip) ==
    IF Len(ip) = 4 THEN ip
    ELSE IF Len(ip) = 16 /\ SubSeq(ip, 1, 12) = v4InV6Prefix THEN SubSeq(ip, 13, 16)
    ELSE <<>>

\* ip.To16(): the 16-byte form, or nil when ip has no valid length
To16(ip) ==
    IF Len(ip) = 4 THEN IPv4(ip[1], ip[2], ip[3], ip[4])
    ELSE IF Len(ip) = 16 THEN ip
    ELSE <<>>

\* ip.Equal(x): an IPv4 address equals its 16-byte form
IPEqual(ip, x) ==
    IF Len(ip) = Len(x) THEN ip = x
    ELSE IF Len(ip) = 4 /\ Len(x) = 16 THEN To4(x) = ip
    ELSE IF Len(ip) = 16 /\ Len(x) = 4 THEN To4(ip) = x
    ELSE FALSE

\* ip.IsUnspecified()
IsUnspecified(ip) == IPEqual(ip, IPv4zero) \/ IPEqual(ip, IPv6unspecified)

\* copy(dst[:], src): the first min(len) bytes of dst are overwritten
Copy(dst, src) == [k \in 1..Len(dst) |-> IF k <= Len(src) THEN src[k] ELSE dst[k]]

---------------------------------------------------------------------------
(* The inputs of one run *)

\* net.Interfaces() with each interface's Addrs(): address and netmask of every
\* address (mask bytes are 0 or 255 in the snapshots used).
Eth0v4 == [IP |-> IPv4(192, 0, 2, 5), Mask |-> <<255, 255, 255, 0>>]
Eth1v4 == [IP |-> IPv4(10, 0, 0, 7), Mask |-> <<255, 0, 0, 0>>]
Eth1v6 == [IP |-> <<254, 128>> \o Zeros(13) \o <<1>>, Mask |-> <<>>]

\* One machine with a single IPv4 address, one with an IPv4 and an IPv6 interface
Snapshots ==
    { << [Name |-> "eth0", Addrs |-> <<Eth0v4>>] >>,
      << [Name |-> "eth0", Addrs |-> <<Eth0v4>>],
         [Name |-> "eth1", Addrs |-> <<Eth1v6>>] >> }

\* serverAddr.IP: nil, the wildcard in both forms, a concrete address in both forms
ServerIPs ==
    { <<>>, <<0, 0, 0, 0>>, IPv6unspecified, <<192, 0, 2, 5>>, IPv4(192, 0, 2, 5) }

ServerPorts == {5075}

\* What crypto/rand may put into beacon.GUID
GUIDs == {"guid1", "guid2"}

\* The channel names the server hosts: it serves channel A and no other
ServedSets == { {"A"} }

---------------------------------------------------------------------------
(* State *)

VARIABLES
    impl,        \* which Serve runs: "listener" (search.go) or "manual" (older file)
    serverAddr,  \* Serve's argument: [IP, Port, Zone]
    interfaces,  \* the interface snapshot of the machine
    served,      \* the channel names this server hosts
    ctxErr,      \* ctx.Err(): None until the context is cancelled
    pc,          \* Serve: "init", "loop" (in the select), "done" (returned)
    result,      \* Serve's return value
    beacon,      \* Serve's local beacon message
    senders,     \* manual Serve: the dialled senders
    ln,          \* listener Serve: the udpconn listener
    ticker,      \* the ticker in effect: [period, running]
    tickReady,   \* a tick waits in ticker.C
    i,           \* Serve's tick counter
    fired,       \* ticks the timers delivered
    now,         \* seconds since the first ticker was created
    batches,     \* beacon batches sent
    lastBatch,   \* the beacons of the last batch, one per outbound endpoint
    afterCancel, \* ticks handled after the context was cancelled
    searchSrv,   \* the searchServer value: [GUID, ServerPort]
    servePc,     \* searchServer.serve: "off", "accepting", "done"
    serveErr,    \* the error serve returned
    lnFailed,    \* the listening socket has failed
    errorLogs,   \* Errorf entries written for the accept loop
    conns,       \* the pseudo-connections accepted so far
    last         \* what the handler that finished last did

cfgVars == <<impl, serverAddr, interfaces, served>>
schedVars == <<pc, result, beacon, senders, ln, ticker, tickReady, i, fired, now,
               batches, lastBatch, afterCancel, searchSrv>>
respVars == <<servePc, serveErr, lnFailed, errorLogs, conns, last>>
vars == <<cfgVars, ctxErr, schedVars, respVars>>

---------------------------------------------------------------------------
(* Address planning *)

\* The addresses of one interface, each with the interface's name as zone
IfaceIPs(iface) ==
    [k \in 1..Len(iface.Addrs) |->
        [IP |-> iface.Addrs[k].IP, Zone |-> iface.Name, Mask |-> iface.Addrs[k].Mask]]

RECURSIVE InterfaceIPs(_)
InterfaceIPs(ifs) ==
    IF ifs = <<>> THEN <<>> ELSE IfaceIPs(Head(ifs)) \o InterfaceIPs(Tail(ifs))

\* manual Serve: serverAddr.IP == nil || serverAddr.IP.IsUnspecified()
Wildcard(ip) == ip = <<>> \/ IsUnspecified(ip)

\* manual Serve: the local addresses beacons are sent from
ManualIPs(addr, ifs) ==
    IF Wildcard(addr.IP)
    THEN [k \in 1..Len(InterfaceIPs(ifs)) |->
            [IP |-> InterfaceIPs(ifs)[k].IP, Zone |-> InterfaceIPs(ifs)[k].Zone]]
    ELSE << [IP |-> addr.IP, Zone |-> addr.Zone] >>

\* manual Serve: the destination dialled for one local address
RemoteAddr(ip) ==
    IF Len(To4(ip.IP)) = 4
    THEN [IP |-> IPv4bcast, Port |-> udpPort, Zone |-> ""]
    ELSE [IP |-> IPv6linklocalallnodes, Port |-> udpPort, Zone |-> ""]

NewSender(ip) == [ip |-> ip.IP, zone |-> ip.Zone, raddr |-> RemoteAddr(ip)]

ManualSenders(addr, ifs) ==
    [k \in 1..Len(ManualIPs(addr, ifs)) |-> NewSender(ManualIPs(addr, ifs)[k])]

\* The directed broadcast address of an IPv4 interface address
DirectedBroadcast(a) ==
    LET ip4 == To4(a.IP)
        b == [k \in 1..4 |-> IF a.Mask[k] = 255 THEN ip4[k] ELSE 255]
    IN  IPv4(b[1], b[2], b[3], b[4])

\* The beacon destination the planner selects for one local interface address
PlannedDest(a) ==
    IF Len(To4(a.IP)) = 4
    THEN [IP |-> DirectedBroadcast(a), Port |-> udpPort, Zone |-> ""]
    ELSE [IP |-> IPv6linklocalallnodes, Port |-> udpPort, Zone |-> a.Zone]

\* Listener.BroadcastSendAddresses(): one destination per local interface address
BroadcastSendAddresses(ifs) ==
    [k \in 1..Len(InterfaceIPs(ifs)) |->
        [local |-> InterfaceIPs(ifs)[k].IP, dest |-> PlannedDest(InterfaceIPs(ifs)[k])]]

LocalIPs(ifs) == {InterfaceIPs(ifs)[k].IP : k \in 1..Len(InterfaceIPs(ifs))}

\* Listener.LocalAddr(): one address for the whole listener
ListenerAddrs(ifs) == {IPv4zero} \cup LocalIPs(ifs)

\* udpconn.Listen(ctx)
Listen(ifs, la) ==
    [open |-> TRUE, LocalAddr |-> [IP |-> la, Port |-> udpPort],
     bcast |-> BroadcastSendAddresses(ifs)]

NoListener == [open |-> FALSE, LocalAddr |-> [IP |-> <<>>, Port |-> 0], bcast |-> <<>>]

---------------------------------------------------------------------------
(* Beacon scheduler *)

ZeroBeacon ==
    [GUID |-> "zero", ServerAddress |-> Zeros(16), ServerPort |-> 0,
     Protocol |-> "", BeaconSequenceID |-> 0]

\* uint16(serverAddr.Port)
UInt16(n) == n % 65536

\* listener Serve: the address put into the beacon at start
BeaconAddress(addr) ==
    IF Len(addr.IP) > 0 THEN Copy(Zeros(16), To16(addr.IP)) ELSE Zeros(16)

\* time.NewTicker(d)
NewTicker(d) == [period |-> d, running |-> TRUE]

NoTicker == [period |-> 0, running |-> FALSE]

\* a counter that stays at its maximum instead of wrapping
IncSeqSaturating(b) ==
    [b EXCEPT !.BeaconSequenceID = IF @ = SeqMod - 1 THEN @ ELSE @ + 1]

\* a scheduler that advances the sequence by two per tick
IncSeqTwice(b) == [b EXCEPT !.BeaconSequenceID = (@ + 2) % SeqMod]

\* beacon.BeaconSequenceID++
IncSeq(b) == [b EXCEPT !.BeaconSequenceID = (@ + 1) % SeqMod]

\* a scheduler that changes the ticker one tick late
NextTickerLate(n, t) == IF n = startupCount + 1 THEN NewTicker(beaconInterval) ELSE t

\* if i == startupCount { ticker.Stop(); ticker = time.NewTicker(beaconInterval) }
NextTicker(n, t) == IF n = startupCount THEN NewTicker(beaconInterval) ELSE t

\* sender.send: the packet is a copy, its address overwritten with the sender's
SenderSend(s, pkt) == [pkt EXCEPT !.ServerAddress = Copy(@, s.ip)]

\* a scheduler that leaves the batch at the first sender whose send fails
ManualBatchStop(ss, pkt, errs) ==
    [k \in {j \in 1..Len(ss) : \A e \in errs : j <= e} |->
        [local |-> ss[k].ip, dest |-> ss[k].raddr, pkt |-> SenderSend(ss[k], pkt),
         err |-> k \in errs]]

\* manual Serve: for _, s := range senders { s.send(ctx, beacon) }
ManualBatch(ss, pkt, errs) ==
    [k \in 1..Len(ss) |->
        [local |-> ss[k].ip, dest |-> ss[k].raddr, pkt |-> SenderSend(ss[k], pkt),
         err |-> k \in errs]]

\* listener Serve: beaconSender.SendApp(ctx, proto.APP_BEACON, &beacon) on the
\* broadcast connection, which writes the one message to every send address
BroadcastBatch(l, pkt, errs) ==
    [k \in 1..Len(l.bcast) |->
        [local |-> l.bcast[k].local, dest |-> l.bcast[k].dest, pkt |-> pkt,
         err |-> k \in errs]]

---------------------------------------------------------------------------
(* Search requests and responses *)

REPLY_REQUIRED == "SEARCH_REPLY_REQUIRED"
UNICAST == "SEARCH_UNICAST"

\* req.Flags, as the set of the bits that are set
FlagSets == { {}, {REPLY_REQUIRED}, {UNICAST, REPLY_REQUIRED} }

ChannelLists ==
    { <<>>,
      << [SearchInstanceID |-> 2, ChannelName |-> "B"] >>,
      << [SearchInstanceID |-> 1, ChannelName |-> "A"],
         [SearchInstanceID |-> 2, ChannelName |-> "B"] >> }

\* The search requests a handler may decode
Requests ==
    { [SearchSequenceID |-> 42, Flags |-> f, Channels |-> chs] :
        f \in FlagSets, chs \in ChannelLists \ {<<>>} }
    \cup { [SearchSequenceID |-> 7, Flags |-> f, Channels |-> <<>>] :
        f \in {{}, {REPLY_REQUIRED}} }

NoRequest == [SearchSequenceID |-> 0, Flags |-> {}, Channels |-> <<>>]

\* What c.Next and msg.Decode give one handler: a read error, a message of
\* another command, a search request that does not decode, or a search request
Inbound ==
    { [err |-> e, cmd |-> None, decodeErr |-> None, req |-> NoRequest] :
        e \in {"EOF", "errRead"} }
    \cup { [err |-> None, cmd |-> "APP_OTHER", decodeErr |-> None, req |-> NoRequest] }
    \cup { [err |-> None, cmd |-> "APP_SEARCH_REQUEST", decodeErr |-> "errDecode",
            req |-> NoRequest] }
    \cup { [err |-> None, cmd |-> "APP_SEARCH_REQUEST", decodeErr |-> None, req |-> r] :
            r \in Requests }

NoResponse ==
    [GUID |-> "zero", SearchSequenceID |-> 0, ServerAddress |-> Zeros(16),
     ServerPort |-> 0, Protocol |-> "", Found |-> FALSE, SearchInstanceIDs |-> <<>>]

\* var found []pvdata.PVUInt; nothing is appended to it ("TODO: Find channels")
FindChannels(req) == <<>>

\* a responder that reports the first requested channel only
InstanceIDsFirst(chs) == [k \in 1..(IF Len(chs) > 0 THEN 1 ELSE 0) |-> chs[k].SearchInstanceID]

\* for _, channel := range req.Channels { append(..., channel.SearchInstanceID) }
InstanceIDs(chs) == [k \in 1..Len(chs) |-> chs[k].SearchInstanceID]

\* a handler that answers under an identity of its own
BuildResponseOwnGUID(srv, laddr, req, found) ==
    [GUID |-> "guid1",
     SearchSequenceID |-> req.SearchSequenceID,
     ServerAddress |-> Copy(Zeros(16), To16(laddr.IP)),
     ServerPort |-> UInt16(srv.ServerPort),
     Protocol |-> "tcp",
     Found |-> FALSE,
     SearchInstanceIDs |-> IF Len(found) = 0 THEN InstanceIDs(req.Channels) ELSE <<>>]

\* handleConnection: the response built for a decoded request
BuildResponse(srv, laddr, req, found) ==
    [GUID |-> srv.GUID,
     SearchSequenceID |-> req.SearchSequenceID,
     ServerAddress |-> Copy(Zeros(16), To16(laddr.IP)),
     ServerPort |-> UInt16(srv.ServerPort),
     Protocol |-> "tcp",
     Found |-> FALSE,
     SearchInstanceIDs |-> IF Len(found) = 0 THEN InstanceIDs(req.Channels) ELSE <<>>]

\* a responder that answers every request
ShouldRespondAlways(found, flags) == TRUE

\* len(found) > 0 || req.Flags&proto.SEARCH_REPLY_REQUIRED == proto.SEARCH_REPLY_REQUIRED
ShouldRespond(found, flags) == Len(found) > 0 \/ {REPLY_REQUIRED} \subseteq flags

\* the address serve hands to the handler as laddr
HandlerAddr(l, connAddr) == l.LocalAddr

\* a handler that treats every command as a search request
HandlesAnyCommand(cmd) == TRUE

\* msg.Header.MessageCommand == proto.APP_SEARCH_REQUEST
HandlesCommand(cmd) == cmd = "APP_SEARCH_REQUEST"

\* a handler that answers with a beacon message
ResponseCommandBeacon == "APP_BEACON"

\* the command of c.SendApp(ctx, proto.APP_SEARCH_RESPONSE, resp)
ResponseCommand == "APP_SEARCH_RESPONSE"

\* handleConnection from c.Next to its return, for one inbound outcome; reads and
\* decodes count the calls of c.Next and msg.Decode
Handle(srv, laddr, in) ==
    IF in.err # None
    THEN [err |-> in.err, decoded |-> FALSE, req |-> NoRequest, found |-> <<>>,
          resp |-> NoResponse, sent |-> <<>>, reads |-> 1, decodes |-> 0]
    ELSE IF ~HandlesCommand(in.cmd)
    THEN [err |-> "EOF", decoded |-> FALSE, req |-> NoRequest, found |-> <<>>,
          resp |-> NoResponse, sent |-> <<>>, reads |-> 1, decodes |-> 0]
    ELSE IF in.decodeErr # None
    THEN [err |-> in.decodeErr, decoded |-> FALSE, req |-> NoRequest, found |-> <<>>,
          resp |-> NoResponse, sent |-> <<>>, reads |-> 1, decodes |-> 1]
    ELSE LET found == FindChannels(in.req)
             resp == BuildResponse(srv, laddr, in.req, found)
         IN  [err |-> "EOF", decoded |-> TRUE, req |-> in.req, found |-> found,
              resp |-> resp,
              sent |-> IF ShouldRespond(found, in.req.Flags)
                       THEN << [cmd |-> ResponseCommand, payload |-> resp] >>
                       ELSE <<>>,
              reads |-> 1, decodes |-> 1]

\* a handler that never writes a warning
WarnsNever(err) == FALSE

\* the deferred function of handleConnection: a warning unless err is nil or io.EOF
Warns(err) == err # None /\ err # "EOF"

FreeConn == [state |-> "free", LocalAddr |-> <<>>, laddr |-> [IP |-> <<>>, Port |-> 0]]

\* conn.Close(): the pseudo-connection is gone
ClosedConn == [state |-> "closed", LocalAddr |-> <<>>, laddr |-> [IP |-> <<>>, Port |-> 0]]

\* a handler that closes its connection only when it ends with io.EOF
ClosesOnEOF(err) == IF err = "EOF" THEN 1 ELSE 0

\* defer conn.Close(): runs once on every return of handleConnection
Closes(err) == 1

\* the pseudo-connection of a handler that has returned
ConnAfter(conn, err) ==
    IF Closes(err) > 0 THEN ClosedConn ELSE [conn EXCEPT !.state = "leaked"]

NoHandled ==
    [LocalAddr |-> <<>>, in |-> [err |-> None, cmd |-> None,
     decodeErr |-> None, req |-> NoRequest], err |-> None, decoded |-> FALSE,
     req |-> NoRequest, found |-> <<>>, resp |-> NoResponse, sent |-> <<>>,
     warned |-> FALSE, reads |-> 0, decodes |-> 0, closes |-> 0]

Accepted == Cardinality({c \in 1..MaxConns : conns[c].state # "free"})

---------------------------------------------------------------------------
(* Initial state: Serve has been called and has not run yet *)

Init ==
    /\ impl \in {"listener", "manual"}
    /\ serverAddr \in [IP : ServerIPs, Port : ServerPorts, Zone : {""}]
    /\ interfaces \in Snapshots
    /\ served \in ServedSets
    /\ ctxErr = None
    /\ pc = "init"
    /\ result = None
    /\ beacon = ZeroBeacon
    /\ senders = <<>>
    /\ ln = NoListener
    /\ ticker = NoTicker
    /\ tickReady = FALSE
    /\ i = 0
    /\ fired = 0
    /\ now = 0
    /\ batches = 0
    /\ lastBatch = <<>>
    /\ afterCancel = 0
    /\ searchSrv = [GUID |-> "zero", ServerPort |-> 0]
    /\ servePc = "off"
    /\ serveErr = None
    /\ lnFailed = FALSE
    /\ errorLogs = 0
    /\ conns = [c \in 1..MaxConns |-> FreeConn]
    /\ last = NoHandled

---------------------------------------------------------------------------
(* Serve, search.go *)

\* a Serve that starts the searchServer goroutine before it looks at Listen's error
ServePcEarly(outcome) == IF outcome = "errRand" THEN "off" ELSE "accepting"

\* the searchServer goroutine is started once rand.Read and Listen have succeeded
ServePcAfterStart(outcome) == IF outcome = "ok" THEN "accepting" ELSE "off"

\* Serve up to the creation of the ticker: the GUID, the beacon's address and
\* port, the listener, the searchServer goroutine
ServeStart ==
    /\ pc = "init"
    /\ impl = "listener"
    /\ \E outcome \in {"ok", "errRand", "errListen"}, g \in GUIDs,
          la \in ListenerAddrs(interfaces) :
        IF outcome = "ok"
        THEN /\ beacon' = [ZeroBeacon EXCEPT !.GUID = g,
                              !.ServerAddress = BeaconAddress(serverAddr),
                              !.ServerPort = UInt16(serverAddr.Port),
                              !.Protocol = "tcp"]
             /\ ln' = Listen(interfaces, la)
             /\ searchSrv' = [GUID |-> g, ServerPort |-> serverAddr.Port]
             /\ servePc' = ServePcAfterStart(outcome)
             /\ ticker' = NewTicker(startupInterval)
             /\ pc' = "loop"
             /\ UNCHANGED result
        ELSE /\ pc' = "done"
             /\ result' = outcome
             /\ servePc' = ServePcAfterStart(outcome)
             /\ UNCHANGED <<beacon, ln, searchSrv, ticker>>
    /\ UNCHANGED <<cfgVars, ctxErr, senders, tickReady, i, fired, now, batches,
                   lastBatch, afterCancel, serveErr, lnFailed, errorLogs, conns, last>>

\* case <-ticker.C
ServeTick ==
    /\ pc = "loop"
    /\ impl = "listener"
    /\ tickReady
    /\ \E errs \in SUBSET (1..Len(ln.bcast)) :
        lastBatch' = BroadcastBatch(ln, IncSeq(beacon), errs)
    /\ beacon' = IncSeq(beacon)
    /\ batches' = batches + 1
    /\ i' = i + 1
    /\ ticker' = NextTicker(i + 1, ticker)
    /\ tickReady' = FALSE
    /\ afterCancel' = IF ctxErr # None THEN afterCancel + 1 ELSE afterCancel
    /\ UNCHANGED <<cfgVars, ctxErr, pc, result, senders, ln, fired, now, searchSrv,
                   respVars>>

---------------------------------------------------------------------------
(* Serve, older file *)

ManualServeStart ==
    /\ pc = "init"
    /\ impl = "manual"
    /\ \E outcome \in {"ok", "errRand", "errInterfaces", "errDial"}, g \in GUIDs :
        /\ outcome = "errInterfaces" => Wildcard(serverAddr.IP)
        /\ outcome = "errDial" => Len(ManualIPs(serverAddr, interfaces)) > 0
        /\ IF outcome = "ok"
           THEN /\ beacon' = [ZeroBeacon EXCEPT !.GUID = g,
                                 !.ServerPort = UInt16(serverAddr.Port),
                                 !.Protocol = "tcp"]
                /\ senders' = ManualSenders(serverAddr, interfaces)
                /\ ticker' = NewTicker(startupInterval)
                /\ pc' = "loop"
                /\ UNCHANGED result
           ELSE /\ pc' = "done"
                /\ result' = outcome
                /\ UNCHANGED <<beacon, senders, ticker>>
    /\ UNCHANGED <<cfgVars, ctxErr, ln, tickReady, i, fired, now, batches, lastBatch,
                   afterCancel, searchSrv, respVars>>

ManualServeTick ==
    /\ pc = "loop"
    /\ impl = "manual"
    /\ tickReady
    /\ \E errs \in SUBSET (1..Len(senders)) :
        lastBatch' = ManualBatch(senders, IncSeq(beacon), errs)
    /\ beacon' = IncSeq(beacon)
    /\ batches' = batches + 1
    /\ i' = i + 1
    /\ ticker' = NextTicker(i + 1, ticker)
    /\ tickReady' = FALSE
    /\ afterCancel' = IF ctxErr # None THEN afterCancel + 1 ELSE afterCancel
    /\ UNCHANGED <<cfgVars, ctxErr, pc, result, senders, ln, fired, now, searchSrv,
                   respVars>>

---------------------------------------------------------------------------
(* Both versions of Serve *)

\* The ticker in effect delivers a tick, one period after the previous one
TimerFire ==
    /\ pc = "loop"
    /\ ticker.running
    /\ ~tickReady
    /\ ctxErr = None
    /\ fired < MaxTicks
    /\ tickReady' = TRUE
    /\ fired' = fired + 1
    /\ now' = now + ticker.period
    /\ UNCHANGED <<cfgVars, ctxErr, pc, result, beacon, senders, ln, ticker, i,
                   batches, lastBatch, afterCancel, searchSrv, respVars>>

\* a Serve that returns the error of its accept loop when there is one
ServeResultOfListener(e) == IF serveErr # None THEN serveErr ELSE e

\* a scheduler that returns nil on cancellation
ServeResultNil(e) == None

\* what Serve returns on <-ctx.Done()
ServeResult(e) == e

\* the deferred ticker.Stop()
StopTicker(t) == [t EXCEPT !.running = FALSE]

\* case <-ctx.Done(): return ctx.Err(), and the deferred ticker.Stop()
ServeReturn ==
    /\ pc = "loop"
    /\ ctxErr # None
    /\ pc' = "done"
    /\ result' = ServeResult(ctxErr)
    /\ ticker' = StopTicker(ticker)
    /\ UNCHANGED <<cfgVars, ctxErr, beacon, senders, ln, tickReady, i, fired, now,
                   batches, lastBatch, afterCancel, searchSrv, respVars>>

\* The caller cancels the context, or its deadline passes
Cancel ==
    /\ ctxErr = None
    /\ ctxErr' \in {"Canceled", "DeadlineExceeded"}
    /\ UNCHANGED <<cfgVars, schedVars, respVars>>

---------------------------------------------------------------------------
(* searchServer *)

\* The listening socket fails while the accept loop runs
ListenerFail ==
    /\ servePc = "accepting"
    /\ ~lnFailed
    /\ lnFailed' = TRUE
    /\ UNCHANGED <<cfgVars, ctxErr, schedVars, servePc, serveErr, errorLogs, conns, last>>

\* ln.Accept() gives a connection: a datagram has arrived on one local address
AcceptReady == ctxErr = None /\ ~lnFailed

\* an accept loop that calls the handler itself and waits for it
ServeWaitsInline == \E c \in 1..MaxConns : conns[c].state = "open"

\* go s.handleConnection(...): serve goes back to Accept without waiting
ServeWaits == FALSE

\* serve: conn, err := ln.Accept() with err == nil; go s.handleConnection(...)
ServeAccept ==
    /\ servePc = "accepting"
    /\ ~ServeWaits
    /\ AcceptReady
    /\ Accepted < MaxConns
    /\ \E a \in LocalIPs(interfaces) :
        conns' = [conns EXCEPT ![Accepted + 1] =
                    [state |-> "open", LocalAddr |-> a, laddr |-> HandlerAddr(ln, a)]]
    /\ UNCHANGED <<cfgVars, ctxErr, schedVars, servePc, serveErr, lnFailed, errorLogs,
                   last>>

\* an accept loop that tries again after a failed Accept
AfterAcceptErrorRetry(err) == "accepting"

\* serve after ln.Accept() has failed
AfterAcceptError(err) == "done"

\* serve: ln.Accept() fails; return err, the deferred ln.Close() and Errorf, and
\* the Errorf of the goroutine Serve started
ServeAcceptError ==
    /\ servePc = "accepting"
    /\ ~ServeWaits
    /\ ~AcceptReady
    /\ LET err == IF lnFailed THEN "errSocket" ELSE "errClosed" IN
        /\ servePc' = AfterAcceptError(err)
        /\ serveErr' = IF AfterAcceptError(err) = "done" THEN err ELSE serveErr
        /\ errorLogs' = IF AfterAcceptError(err) = "done" THEN errorLogs + 2 ELSE errorLogs
    /\ UNCHANGED <<cfgVars, ctxErr, schedVars, lnFailed, conns, last>>

\* handleConnection, from the read that unblocks to the return
HandleConnection(c) ==
    /\ conns[c].state = "open"
    /\ \E in \in Inbound :
        LET h == Handle(searchSrv, conns[c].laddr, in) IN
        /\ conns' = [conns EXCEPT ![c] = ConnAfter(conns[c], h.err)]
        /\ last' = [LocalAddr |-> conns[c].LocalAddr, in |-> in,
                    err |-> h.err, decoded |-> h.decoded, req |-> h.req,
                    found |-> h.found, resp |-> h.resp, sent |-> h.sent,
                    warned |-> Warns(h.err), reads |-> h.reads,
                    decodes |-> h.decodes, closes |-> Closes(h.err)]
    /\ UNCHANGED <<cfgVars, ctxErr, schedVars, servePc, serveErr, lnFailed, errorLogs>>

---------------------------------------------------------------------------
(* Specifications *)

SchedNext ==
    \/ ServeStart
    \/ ManualServeStart
    \/ TimerFire
    \/ ServeTick
    \/ ManualServeTick
    \/ ServeReturn
    \/ Cancel

RespNext ==
    \/ ServeStart
    \/ Cancel
    \/ ListenerFail
    \/ ServeAccept
    \/ ServeAcceptError
    \/ \E c \in 1..MaxConns : HandleConnection(c)

Next ==
    \/ ServeStart
    \/ ManualServeStart
    \/ TimerFire
    \/ ServeTick
    \/ ManualServeTick
    \/ ServeReturn
    \/ Cancel
    \/ ListenerFail
    \/ ServeAccept
    \/ ServeAcceptError
    \/ \E c \in 1..MaxConns : HandleConnection(c)

Spec == Init /\ [][Next]_vars

\* The scheduler alone: the responder's goroutines take no step
SchedSpec == Init /\ [][SchedNext]_vars

\* The responder alone, under search.go's Serve: the timers deliver no tick
RespInit == Init /\ impl = "listener" /\ serverAddr.IP = <<>>

RespSpec == RespInit /\ [][RespNext]_vars

\* search.go's Serve with its responder, every interleaving of the scheduler, the
\* accept loop and the handlers, on the machine with one interface and for the
\* first MixTicks ticks
MixTimerFire == fired < MixTicks /\ TimerFire

MixNext ==
    \/ ServeStart
    \/ MixTimerFire
    \/ ServeTick
    \/ ServeReturn
    \/ Cancel
    \/ ListenerFail
    \/ ServeAccept
    \/ ServeAcceptError
    \/ \E c \in 1..MaxConns : HandleConnection(c)

MixInit == RespInit /\ Len(interfaces) = 1

MixSpec == MixInit /\ [][MixNext]_vars

\* The Go scheduler runs every runnable goroutine: a step of Serve's loop that
\* stays possible is taken, and so is a step of the accept loop
FairSchedSpec == SchedSpec /\ WF_vars(ServeTick \/ ManualServeTick \/ ServeReturn)

FairRespSpec == RespSpec /\ WF_vars(ServeAccept \/ ServeAcceptError)

---------------------------------------------------------------------------
(* Claims *)

TickTime(n) ==
    IF n <= startupCount
    THEN n * startupInterval
    ELSE startupCount * startupInterval + (n - startupCount) * beaconInterval

\* C1: while Serve runs its loop, the ticker in effect has a period of 1 second
\* until 15 ticks have been handled and of 5 seconds from the 15th tick on; every
\* tick the timers delivered has produced exactly one beacon batch or is the one
\* waiting to be handled; so tick N arrives N seconds after start for N <= 15 and
\* 5 seconds after its predecessor afterwards.
C1_TimerPhases ==
    pc = "loop" =>
        /\ ticker.running
        /\ ticker.period = IF i < startupCount THEN startupInterval ELSE beaconInterval
        /\ fired = i + (IF tickReady THEN 1 ELSE 0)
        /\ batches = i
        /\ now = TickTime(fired)

\* C1 witness: the second steady-state tick has been delivered, 25 seconds after start
C1_Witness ==
    /\ pc = "loop"
    /\ fired = startupCount + 2
    /\ i = startupCount + 1
    /\ ticker.period = beaconInterval
    /\ now = 25

\* C2 as stated: the sequence value is the number of ticks handled (1 on the first
\* beacon, one more on every tick), and every beacon of a batch carries it.
C2_SeqStrictlyIncreasing ==
    /\ beacon.BeaconSequenceID = batches
    /\ \A k \in DOMAIN lastBatch : lastBatch[k].pkt.BeaconSequenceID = batches

Endpoints == IF impl = "manual" THEN Len(senders) ELSE Len(ln.bcast)

\* C2 amended: the sequence value advances by exactly 1 per tick modulo 2^w (it is
\* 1 on the first beacon and 0 on the tick after the one carrying the maximum), and
\* every outbound endpoint is sent one beacon per tick, all with the same value.
C2_SeqPerTick ==
    /\ beacon.BeaconSequenceID = batches % SeqMod
    /\ batches = i
    /\ batches > 0 => Len(lastBatch) = Endpoints
    /\ \A k \in DOMAIN lastBatch :
        lastBatch[k].pkt.BeaconSequenceID = beacon.BeaconSequenceID

\* C2 witness: the tick after the wrap, on a machine with two outbound endpoints
C2_Witness ==
    /\ batches = SeqMod + 1
    /\ beacon.BeaconSequenceID = 1
    /\ Len(lastBatch) = 2
    /\ lastBatch[1].pkt.BeaconSequenceID = 1
    /\ lastBatch[2].pkt.BeaconSequenceID = 1

\* C3: a handler that decoded a search request sent a search response if and only
\* if its list of found channels is not empty or the request has the reply-required
\* flag; it never sent more than one.
C3_RespondIff ==
    last.decoded =>
        /\ Len(last.sent) <= 1
        /\ Len(last.sent) = 1 <=>
            (Len(last.found) > 0 \/ REPLY_REQUIRED \in last.req.Flags)

\* C3 witness: request 42 for two channels, flag unset, nothing found: no response
C3_Witness ==
    /\ last.decoded
    /\ last.req.SearchSequenceID = 42
    /\ last.req.Flags = {}
    /\ Len(last.req.Channels) = 2
    /\ last.found = <<>>
    /\ last.sent = <<>>

IDSet(ids) == {ids[k] : k \in DOMAIN ids}

\* C4: for a decoded request with the reply-required flag and nothing found, the
\* handler sent exactly one message, a search response that echoes the request's
\* SearchSequenceID, has Found = false and lists the instance IDs of all requested
\* channels (as a set).
C4_NotFoundReply ==
    (last.decoded /\ REPLY_REQUIRED \in last.req.Flags /\ last.found = <<>>) =>
        /\ Len(last.sent) = 1
        /\ last.sent[1].cmd = "APP_SEARCH_RESPONSE"
        /\ last.sent[1].payload.SearchSequenceID = last.req.SearchSequenceID
        /\ last.sent[1].payload.Found = FALSE
        /\ IDSet(last.sent[1].payload.SearchInstanceIDs)
            = {last.in.req.Channels[k].SearchInstanceID : k \in DOMAIN last.in.req.Channels}

\* C4 witness: request 42 for channels 1 and 2 with reply required was answered
C4_Witness ==
    /\ last.decoded
    /\ last.req.SearchSequenceID = 42
    /\ REPLY_REQUIRED \in last.req.Flags
    /\ Len(last.sent) = 1
    /\ last.sent[1].payload.SearchSequenceID = 42
    /\ IDSet(last.sent[1].payload.SearchInstanceIDs) = {1, 2}

\* the instance IDs of the requested channels that the server hosts
ServedIDs(req) ==
    {req.Channels[k].SearchInstanceID :
        k \in {j \in DOMAIN req.Channels : req.Channels[j].ChannelName \in served}}

\* C5: when at least one requested channel is served locally, the response built
\* for the request has Found = true and lists exactly the instance IDs of the
\* served channels.
C5_FoundReply ==
    (last.decoded /\ ServedIDs(last.req) # {}) =>
        /\ last.resp.Found = TRUE
        /\ IDSet(last.resp.SearchInstanceIDs) = ServedIDs(last.req)

\* C6: a Serve that entered its loop returns only when the context is cancelled,
\* with the context's error and its ticker stopped; after the cancellation it
\* handles at most one more tick; and once cancelled it does return.
C6_CancelReturns ==
    /\ []((pc = "done" /\ ticker # NoTicker) =>
            (ctxErr # None /\ result = ctxErr /\ ~ticker.running))
    /\ [](afterCancel <= 1)
    /\ ((ctxErr # None /\ pc = "loop") ~> (pc = "done"))

\* C6 witness: Serve handled the tick that was pending at the cancellation and
\* then returned the deadline error
C6_Witness ==
    /\ pc = "done"
    /\ result = "DeadlineExceeded"
    /\ ctxErr = "DeadlineExceeded"
    /\ afterCancel = 1
    /\ ~ticker.running

\* C7: once the context is cancelled no pseudo-connection is accepted any more and
\* the accept loop terminates; neither the cancellation nor the end of the accept
\* loop touches a dispatched handler, which can still run to its own exit.
C7_CancelStopsAccepting ==
    /\ [][ctxErr # None => Accepted' = Accepted]_vars
    /\ [][(ctxErr' # ctxErr \/ servePc' # servePc) => conns' = conns]_vars
    /\ [](\A c \in 1..MaxConns : conns[c].state = "open" => ENABLED HandleConnection(c))
    /\ ((ctxErr # None /\ servePc = "accepting") ~> (servePc = "done"))

\* C7 witness: after the cancellation the accept loop has ended, one handler has
\* run to its end and another one is still waiting for its message
C7_Witness ==
    /\ ctxErr # None
    /\ servePc = "done"
    /\ serveErr = "errClosed"
    /\ conns[1].state = "open"
    /\ conns[2].state = "closed"

\* C8: every transmitted beacon carries the configured address when that address
\* is concrete, and otherwise the local address of the endpoint it is sent from;
\* never the unspecified address.
C8_BeaconAddress ==
    \A k \in DOMAIN lastBatch :
        /\ lastBatch[k].pkt.ServerAddress =
            IF Wildcard(serverAddr.IP) THEN To16(lastBatch[k].local)
            ELSE To16(serverAddr.IP)
        /\ ~IsUnspecified(lastBatch[k].pkt.ServerAddress)

Destinations ==
    IF impl = "manual"
    THEN {senders[k].raddr : k \in DOMAIN senders}
    ELSE {ln.bcast[k].dest : k \in DOMAIN ln.bcast}

\* C9: the beacon destinations are one per local interface address: the directed
\* broadcast address of the subnet for an IPv4 address, the all-nodes link-local
\* multicast address in the interface's zone for an IPv6 address.
C9_Destinations ==
    pc = "loop" =>
        Destinations =
            {PlannedDest(InterfaceIPs(interfaces)[k]) :
                k \in DOMAIN InterfaceIPs(interfaces)}

\* C10: a sent search response carries, as server address, the local address of
\* the pseudo-connection its request arrived on.
C10_ResponseAddress ==
    \A k \in DOMAIN last.sent :
        last.sent[k].payload.ServerAddress = To16(last.LocalAddr)

---------------------------------------------------------------------------
(* C11: failure of the listening socket *)

\* C11 as stated: once the accept loop has ended on a failed listening socket, the
\* result Serve returns is that failure.
C11_ListenerFailureIsResult ==
    (serveErr = "errSocket" /\ pc = "done") => result = "errSocket"

\* C11: a listening socket that fails after the start ends the accept loop, which
\* is reported by two error log entries and by nothing else: Serve goes on with
\* its scheduler until the context is cancelled and then returns the context's
\* error, never the error of Accept or of a handler; the error of a handler
\* leaves the result of Serve, the accept loop and the error log alone.
C11_ListenerFailureLogged ==
    /\ serveErr # None => servePc = "done" /\ errorLogs = 2
    /\ serveErr = None => errorLogs = 0
    /\ lnFailed /\ servePc = "done" => serveErr = "errSocket"
    /\ serveErr = "errSocket" /\ ctxErr = None => pc = "loop" /\ result = None
    /\ pc = "done" /\ servePc # "off" => ctxErr # None /\ result = ctxErr
    /\ result \notin {"errSocket", "errClosed", "errRead", "errDecode", "EOF"}

C11_Witness ==
    /\ serveErr = "errSocket"
    /\ errorLogs = 2
    /\ last.warned
    /\ batches > 0
    /\ pc = "done"
    /\ result = "Canceled"

---------------------------------------------------------------------------
(* C12: a send that fails *)

\* C12: a tick on which the send to some endpoint fails still makes one attempt
\* for every endpoint (none skipped, none repeated), leaves Serve in its loop
\* without a result, and advances the sequence number, the tick count and the
\* ticker exactly as a tick without failure does.
C12_SendFailureIgnored ==
    [][ (batches' = batches + 1 /\ \E k \in DOMAIN lastBatch' : lastBatch'[k].err)
        => /\ pc' = "loop"
           /\ result' = None
           /\ Len(lastBatch') = Endpoints
           /\ impl = "manual" =>
                \A k \in DOMAIN lastBatch' :
                    /\ lastBatch'[k].local = senders[k].ip
                    /\ lastBatch'[k].dest = senders[k].raddr
           /\ \A k \in DOMAIN lastBatch' :
                lastBatch'[k].pkt.BeaconSequenceID = (beacon.BeaconSequenceID + 1) % SeqMod
           /\ beacon'.BeaconSequenceID = (beacon.BeaconSequenceID + 1) % SeqMod
           /\ i' = i + 1
           /\ ticker' = NextTicker(i + 1, ticker)
           /\ ticker'.running ]_vars

\* C12 witness: the first of two sends failed on the previous tick, the second was
\* made, and a later tick has been handled
C12_Witness ==
    /\ impl = "manual"
    /\ pc = "loop"
    /\ batches = 3
    /\ Len(lastBatch) = 2
    /\ lastBatch[1].err
    /\ ~lastBatch[2].err
    /\ beacon.BeaconSequenceID = 3

---------------------------------------------------------------------------
(* C13: the pseudo-connection is closed *)

\* C13: a handler that has returned has closed its pseudo-connection exactly once,
\* whichever way it ended (failed read, other command, failed decode, no reply,
\* reply sent); no pseudo-connection is left open by a handler that has returned.
C13_ClosedOnce ==
    /\ \A c \in 1..MaxConns : conns[c].state \in {"free", "open", "closed"}
    /\ \A c \in 1..MaxConns : conns[c].state = "closed" => conns[c] = ClosedConn
    /\ last # NoHandled => last.closes = 1
    /\ last = NoHandled => \A c \in 1..MaxConns : conns[c].state # "closed"

\* C13 witness: every pseudo-connection was accepted and is closed, the last one
\* by a handler whose decode failed
C13_Witness ==
    /\ \A c \in 1..MaxConns : conns[c].state = "closed"
    /\ last.in.decodeErr = "errDecode"
    /\ last.err = "errDecode"
    /\ last.closes = 1

---------------------------------------------------------------------------
(* C14: a message that is not a search request *)

\* C14: a handler whose one message has another command than search request
\* sends nothing, does not call Decode, and returns io.EOF, for which no warning
\* and no error is logged.
C14_OtherCommand ==
    (last.reads = 1 /\ last.in.err = None /\ last.in.cmd # "APP_SEARCH_REQUEST")
        => /\ last.sent = <<>>
           /\ last.decodes = 0
           /\ ~last.decoded
           /\ last.err = "EOF"
           /\ ~last.warned
           /\ errorLogs > 0 => serveErr # None

\* C14 witness: a handler has read a message of another command and returned
C14_Witness ==
    /\ last.in.cmd = "APP_OTHER"
    /\ last.err = "EOF"
    /\ last.closes = 1
    /\ errorLogs = 0

---------------------------------------------------------------------------
(* C15: a failed read or a failed decode *)

\* A handler step: a pseudo-connection that was open is no longer open
HandlerStep == \E c \in 1..MaxConns : conns[c].state = "open" /\ conns'[c].state # "open"

\* The handler that has just returned failed to read or to decode
HandlerFailed(l) ==
    /\ l.reads = 1
    /\ \/ l.in.err # None
       \/ l.in.cmd = "APP_SEARCH_REQUEST" /\ l.in.decodeErr # None

\* C15: a handler whose read fails (end of stream included) or whose decode fails
\* returns that error after its one read, having sent nothing; a warning is logged
\* unless the error is io.EOF; and its step changes nothing of the accept loop, of
\* the other pseudo-connections and of the scheduler.
C15_FailedReadOrDecode ==
    /\ [](HandlerFailed(last) =>
            /\ last.reads = 1
            /\ last.decodes = (IF last.in.err # None THEN 0 ELSE 1)
            /\ last.sent = <<>>
            /\ ~last.decoded
            /\ last.err = (IF last.in.err # None THEN last.in.err ELSE last.in.decodeErr)
            /\ last.warned <=> last.err # "EOF")
    /\ [][ (HandlerStep /\ HandlerFailed(last'))
            => /\ UNCHANGED <<servePc, serveErr, lnFailed, errorLogs, ctxErr>>
               /\ UNCHANGED schedVars
               /\ Cardinality({c \in 1..MaxConns : conns'[c] # conns[c]}) = 1 ]_vars

\* C15 witness: one handler has failed with a read error and was warned about
\* while another pseudo-connection is still open and the accept loop still runs
C15_Witness ==
    /\ last.in.err = "errRead"
    /\ last.warned
    /\ last.sent = <<>>
    /\ servePc = "accepting"
    /\ \E c \in 1..MaxConns : conns[c].state = "open"
    /\ \E c \in 1..MaxConns : conns[c].state = "closed"

---------------------------------------------------------------------------
(* C16: the accept loop does not wait for handlers *)

\* C16: every accepted pseudo-connection gets its own handler and serve goes back
\* to Accept at once; while any handler is still blocked on its read, serve can
\* take the next Accept (a connection or the error), every other open handler can
\* finish, and Serve can handle a tick and the ticker can deliver one; serve
\* leaves its loop only on an Accept that failed because the socket failed or
\* the context ended.
C16_AcceptNeverWaits ==
    /\ []((\E c \in 1..MaxConns : conns[c].state = "open") =>
            /\ (servePc = "accepting" /\ AcceptReady /\ Accepted < MaxConns)
                    => ENABLED ServeAccept
            /\ (servePc = "accepting" /\ ~AcceptReady) => ENABLED ServeAcceptError
            /\ \A d \in 1..MaxConns :
                    conns[d].state = "open" => ENABLED HandleConnection(d)
            /\ (pc = "loop" /\ tickReady) => ENABLED ServeTick
            /\ (pc = "loop" /\ ~tickReady /\ ctxErr = None /\ fired < MixTicks)
                    => ENABLED MixTimerFire)
    /\ [](servePc = "done" => serveErr # None /\ (lnFailed \/ ctxErr # None))
    /\ [][ Accepted' # Accepted
            => /\ Accepted' = Accepted + 1
               /\ conns'[Accepted'].state = "open"
               /\ \A c \in 1..Accepted : conns'[c] = conns[c]
               /\ servePc' = "accepting" ]_vars
    /\ [][ servePc = "accepting" /\ servePc' # "accepting"
            => ~AcceptReady /\ servePc' = "done" /\ serveErr' # None ]_vars

\* C16 witness: the first handler is still blocked on its read; a pseudo-connection
\* accepted after it has been handled and closed, beacons have been sent, a tick is
\* waiting, and the accept loop is still running
C16_Witness ==
    /\ conns[1].state = "open"
    /\ conns[2].state = "closed"
    /\ servePc = "accepting"
    /\ batches > 0
    /\ tickReady

---------------------------------------------------------------------------
(* C17: failure at start *)

StartErrors == {"errRand", "errInterfaces", "errListen", "errDial"}

\* C17: when GUID generation, interface enumeration, or opening a socket fails,
\* Serve has returned that error; it has sent no beacon, no ticker was created
\* and no tick delivered, the search responder was never started, and Serve
\* does nothing afterwards (no retry).
C17_StartFailure ==
    /\ [](result \in StartErrors =>
            /\ pc = "done"
            /\ batches = 0
            /\ Len(lastBatch) = 0
            /\ ticker = NoTicker
            /\ fired = 0
            /\ i = 0
            /\ servePc = "off"
            /\ beacon = ZeroBeacon)
    /\ [][ (pc = "init" /\ pc' = "done") => result' \in StartErrors ]_vars
    /\ [][ pc = "done" => pc' = "done" /\ result' = result /\ batches' = batches ]_vars

\* C17 witness: the socket could not be opened and Serve has returned the error
C17_Witness ==
    /\ impl = "listener"
    /\ result = "errListen"
    /\ pc = "done"
    /\ servePc = "off"
    /\ batches = 0

---------------------------------------------------------------------------
(* C18: the sequence number wraps *)

\* C18: BeaconSequenceID stays within 0 .. 2^w - 1; the tick handled while it
\* holds 2^w - 1 sends beacons carrying 0 and leaves Serve in its loop with a
\* running ticker, and every other tick adds exactly 1.
C18_SeqWraps ==
    /\ [](beacon.BeaconSequenceID \in 0..(SeqMod - 1))
    /\ [][ batches' = batches + 1 =>
            /\ pc' = "loop"
            /\ ticker'.running
            /\ IF beacon.BeaconSequenceID = SeqMod - 1
               THEN /\ beacon'.BeaconSequenceID = 0
                    /\ \A k \in DOMAIN lastBatch' : lastBatch'[k].pkt.BeaconSequenceID = 0
               ELSE /\ beacon'.BeaconSequenceID = beacon.BeaconSequenceID + 1
                    /\ \A k \in DOMAIN lastBatch' :
                         lastBatch'[k].pkt.BeaconSequenceID = beacon.BeaconSequenceID + 1 ]_vars

\* C18 witness: the beacons of tick 2^w carried 0, those of the two ticks after it
\* 1 and 2, and Serve is still in its loop
C18_Witness ==
    /\ batches = SeqMod + 2
    /\ beacon.BeaconSequenceID = 2
    /\ Len(lastBatch) > 0
    /\ lastBatch[1].pkt.BeaconSequenceID = 2
    /\ pc = "loop"
    /\ ticker.running

---------------------------------------------------------------------------
(* C19: one GUID and one port *)

\* C19: once Serve has started, the GUID and the port of the beacon and of the
\* search responder are the GUID drawn at start and the port of serverAddr, no
\* step changes them, and every beacon of the latest batch and every response a
\* handler has sent carries them, however ticks and handlers interleave.
C19_FixedIdentity ==
    /\ []((pc # "init" /\ servePc # "off") =>
            /\ beacon.GUID \in GUIDs
            /\ searchSrv.GUID = beacon.GUID
            /\ beacon.ServerPort = UInt16(serverAddr.Port)
            /\ UInt16(searchSrv.ServerPort) = beacon.ServerPort
            /\ \A k \in DOMAIN lastBatch :
                /\ lastBatch[k].pkt.GUID = beacon.GUID
                /\ lastBatch[k].pkt.ServerPort = beacon.ServerPort
            /\ \A k \in DOMAIN last.sent :
                /\ last.sent[k].payload.GUID = beacon.GUID
                /\ last.sent[k].payload.ServerPort = beacon.ServerPort)
    /\ [][ pc # "init" =>
            /\ beacon'.GUID = beacon.GUID
            /\ beacon'.ServerPort = beacon.ServerPort
            /\ searchSrv' = searchSrv
            /\ serverAddr' = serverAddr ]_vars

\* C19 witness: two batches of beacons and a search response have been sent, all
\* under the second GUID and port 5075, while another handler is still blocked
C19_Witness ==
    /\ batches = 2
    /\ beacon.GUID = "guid2"
    /\ lastBatch[1].pkt.GUID = "guid2"
    /\ lastBatch[1].pkt.ServerPort = 5075
    /\ Len(last.sent) = 1
    /\ last.sent[1].payload.GUID = "guid2"
    /\ last.sent[1].payload.ServerPort = 5075
    /\ \E c \in 1..MaxConns : conns[c].state = "open"

---------------------------------------------------------------------------
(* C20: one read, at most one send *)

\* C20: a handler reads one message at most and sends one message at most; what
\* it sends is a search response, and it sends only when its read succeeded, the
\* message was a search request and the request decoded.
C20_OneReadOneSend ==
    /\ last.reads <= 1
    /\ last.decodes <= last.reads
    /\ Len(last.sent) <= last.decodes
    /\ \A k \in DOMAIN last.sent :
        /\ last.sent[k].cmd = "APP_SEARCH_RESPONSE"
        /\ last.sent[k].payload = last.resp
        /\ last.in.err = None
        /\ last.in.cmd = "APP_SEARCH_REQUEST"
        /\ last.in.decodeErr = None
        /\ last.decoded
        /\ last.req = last.in.req

\* C20 witness: a handler has read one search request, decoded it and sent its
\* one response
C20_Witness ==
    /\ last.reads = 1
    /\ last.decodes = 1
    /\ Len(last.sent) = 1
    /\ last.sent[1].cmd = "APP_SEARCH_RESPONSE"
    /\ last.in.cmd = "APP_SEARCH_REQUEST"
    /\ last.err = "EOF"

====
